---- MODULE Spec2Model ----
(***************************************************************************)
(* Model of src/main.py: a read-only ELF64 navigator built from            *)
(*   MmapSlice    - a window (offset, size) over a memory-mapped file,     *)
(*   StructReader - a schema-driven decoder over an MmapSlice,             *)
(*   StringTable  - null-terminated name lookup in an MmapSlice,           *)
(*   ELFFile      - scoped open/mmap plus header, program and section      *)
(*                  resolution,                                            *)
(*   main         - identification validation.                             *)
(* Bytes are integers 0..255, byte strings and text are sequences, and an  *)
(* Optional[int] is the empty set (None) or a singleton.  Every operation  *)
(* returns a record whose field err is "none" or the kind of the exception *)
(* the Python code raises.  main.py raises ValueError and RuntimeError     *)
(* only; the kinds are told apart by the message:                          *)
(*   OutOfRange            ValueError  required slice exceeds actual size  *)
(*   SchemaMismatch        ValueError  size of data (..) does not match .. *)
(*   IndexOutOfRange       ValueError  invalid program / section index     *)
(*   SectionNotFound       ValueError  invalid section name                *)
(*   DuplicateField        RuntimeError  duplicate field name              *)
(*   InvalidMagic          RuntimeError  invalid ELF magic                 *)
(*   UnsupportedWordSize   RuntimeError  only 64-bit ELF file is supported *)
(*   UnsupportedEndianness RuntimeError  only little-endian ELF file ..    *)
(*   UnsupportedVersion    RuntimeError  invalid ELF identification version*)
(* and the exceptions of the library calls keep a name of their own:       *)
(*   IndexError (mmap[i]), StructError (struct.error), InvalidEncoding     *)
(*   (UnicodeDecodeError), UnknownField (KeyError), MmapError (mmap.mmap   *)
(*   on an empty file), MmapClosed (a read of a closed mapping).           *)
(***************************************************************************)
EXTENDS Integers, Sequences, FiniteSets, TLC

VARIABLES file, pc, stack, fileOpen, mmapOpen, last

vars == <<file, pc, stack, fileOpen, mmapOpen, last>>

(***************************************************************************)
(* Exceptions and sequencing.  A call returns a record whose err is "none" *)
(* or, when it raises, Raise(kind).  Try(r, K) is `x = r; K(x)` in Python: *)
(* r is evaluated once and an exception raised by it propagates.           *)
(***************************************************************************)

Raise(kind) == [err |-> kind]

Let(e, K(_)) == CHOOSE out \in {K(x) : x \in {e}} : TRUE

Try(r, K(_)) ==
    Let(r, LAMBDA x : IF x.err # "none" THEN Raise(x.err) ELSE K(x))

(***************************************************************************)
(* CPython's mmap object, as main.py uses it.                              *)
(***************************************************************************)

\* mmap[i] with an integer: a negative index counts from the end, and an
\* index outside the mapping raises IndexError.
MmapItem(m, i) ==
    LET j == IF i < 0 THEN i + Len(m) ELSE i
    IN  IF j < 0 \/ j >= Len(m)
        THEN Raise("IndexError")
        ELSE [err |-> "none", val |-> m[j + 1]]

\* Python's adjustment of one slice bound to a sequence of length n.
AdjustIndex(i, n) ==
    IF i < 0
    THEN (IF i + n < 0 THEN 0 ELSE i + n)
    ELSE (IF i > n THEN n ELSE i)

\* mmap[start:stop]: bounds are adjusted, never an error; empty when the
\* adjusted start is not below the adjusted stop.
MmapRange(m, start, stop) ==
    LET a == AdjustIndex(start, Len(m))
        b == AdjustIndex(stop, Len(m))
    IN  IF a < b THEN SubSeq(m, a + 1, b) ELSE <<>>

(***************************************************************************)
(* class MmapSlice                                                         *)
(***************************************************************************)

\* MmapSlice.__init__: stores offset and size, validates nothing.
MmapSlice(offset, size) == [offset |-> offset, size |-> size]

\* MmapSlice.__getitem__ with an integer index.
GetItem(m, v, index) == MmapItem(m, v.offset + index)

\* MmapSlice.__getitem__ with a slice start:stop; stop is {} for None.
GetSlice(m, v, start, stop) ==
    LET end == IF stop = {} THEN v.size ELSE CHOOSE x \in stop : TRUE
    IN  MmapRange(m, v.offset + start, v.offset + end)

\* MmapSlice.slice with the comparison written >=: a slice that ends at the
\* end of the view is refused.
sliceRefusingEnd(v, offset, size) ==
    IF v.offset + offset + size >= v.offset + v.size
    THEN Raise("OutOfRange")
    ELSE [err |-> "none", view |-> MmapSlice(v.offset + offset, size)]

\* MmapSlice.slice
slice(v, offset, size) ==
    IF v.offset + offset + size > v.offset + v.size
    THEN Raise("OutOfRange")
    ELSE [err |-> "none", view |-> MmapSlice(v.offset + offset, size)]

\* The loop of MmapSlice.find: for index in range(index, end).
RECURSIVE FindLoop(_, _, _, _, _)
FindLoop(m, v, ch, index, end) ==
    IF index >= end
    THEN [err |-> "none", idx |-> {}]
    ELSE Try(MmapItem(m, v.offset + index), LAMBDA b :
             IF b.val = ch THEN [err |-> "none", idx |-> {index}]
             ELSE FindLoop(m, v, ch, index + 1, end))

\* MmapSlice.find; end is {} for None.
find(m, v, ch, begin, end) ==
    IF begin >= v.size
    THEN [err |-> "none", idx |-> {}]
    ELSE LET e == IF end = {} THEN v.size
                  ELSE LET x == CHOOSE y \in end : TRUE
                       IN  IF x >= v.size THEN v.size ELSE x
         IN  FindLoop(m, v, ch, begin, e)

(***************************************************************************)
(* struct.unpack and bytes.decode                                          *)
(***************************************************************************)

\* Width in bytes of a struct format of main.py.
CalcSize(format) ==
    CASE format = "<b" -> 1
      [] format = "<h" -> 2
      [] format = "<l" -> 4
      [] format = "<q" -> 8

RECURSIVE HornerLE(_, _, _)
HornerLE(bytes, i, acc) ==
    IF i = 0 THEN acc ELSE HornerLE(bytes, i - 1, acc * 256 + bytes[i])

\* struct.unpack(format, bytes)[0]: a little-endian two's-complement integer
\* of the format's width; struct.error when the buffer has another length.
Unpack(format, bytes) ==
    IF Len(bytes) # CalcSize(format)
    THEN Raise("StructError")
    ELSE LET n   == Len(bytes)
             top == IF bytes[n] >= 128 THEN bytes[n] - 256 ELSE bytes[n]
         IN  [err |-> "none", val |-> HornerLE(bytes, n - 1, top)]

\* Continuation byte of a UTF-8 sequence.
IsCont(b) == b >= 128 /\ b <= 191

\* bytes.decode(): strict UTF-8.  The text is the sequence of code points;
\* UnicodeDecodeError is InvalidEncoding.
RECURSIVE Utf8Loop(_, _, _)
Utf8Loop(bytes, i, acc) ==
    IF i > Len(bytes) THEN [err |-> "none", text |-> acc]
    ELSE LET b0   == bytes[i]
             left == Len(bytes) - i
             bad  == Raise("InvalidEncoding")
         IN  IF b0 < 128 THEN Utf8Loop(bytes, i + 1, Append(acc, b0))
             ELSE IF b0 >= 194 /\ b0 <= 223
             THEN IF left >= 1 /\ IsCont(bytes[i + 1])
                  THEN Utf8Loop(bytes, i + 2,
                           Append(acc, (b0 - 192) * 64 + (bytes[i + 1] - 128)))
                  ELSE bad
             ELSE IF b0 >= 224 /\ b0 <= 239
             THEN IF /\ left >= 2
                     /\ IsCont(bytes[i + 1]) /\ IsCont(bytes[i + 2])
                     /\ (b0 = 224 => bytes[i + 1] >= 160)
                     /\ (b0 = 237 => bytes[i + 1] <= 159)
                  THEN Utf8Loop(bytes, i + 3,
                           Append(acc, (b0 - 224) * 4096
                                       + (bytes[i + 1] - 128) * 64
                                       + (bytes[i + 2] - 128)))
                  ELSE bad
             ELSE IF b0 >= 240 /\ b0 <= 244
             THEN IF /\ left >= 3
                     /\ IsCont(bytes[i + 1]) /\ IsCont(bytes[i + 2])
                     /\ IsCont(bytes[i + 3])
                     /\ (b0 = 240 => bytes[i + 1] >= 144)
                     /\ (b0 = 244 => bytes[i + 1] <= 143)
                  THEN Utf8Loop(bytes, i + 4,
                           Append(acc, (b0 - 240) * 262144
                                       + (bytes[i + 1] - 128) * 4096
                                       + (bytes[i + 2] - 128) * 64
                                       + (bytes[i + 3] - 128)))
                  ELSE bad
             ELSE bad

Decode(bytes) == Let(bytes, LAMBDA b : Utf8Loop(b, 1, <<>>))

(***************************************************************************)
(* class StructReader and its schemas                                      *)
(***************************************************************************)

F(name, size, format) == [name |-> name, size |-> size, format |-> format]

\* ELFIdentification.FIELD_MAPPING; the format None is "raw".
ELFIdentificationFields ==
    << F("magic", 4, "raw"), F("elf_class", 1, "<b"),
       F("data_encoding", 1, "<b"), F("header_version", 1, "<b"),
       F("os_abi", 1, "<b"), F("os_abi_version", 1, "<b"),
       F("padding", 7, "raw") >>

\* ELF64Header.FIELD_MAPPING
ELF64HeaderFields ==
    ELFIdentificationFields \o
    << F("object_type", 2, "<h"), F("architecture", 2, "<h"),
       F("object_version", 4, "<l"), F("entry_address", 8, "<q"),
       F("program_header_offset", 8, "<q"),
       F("section_header_offset", 8, "<q"), F("flags", 4, "raw"),
       F("elf_header_size", 2, "<h"), F("program_header_size", 2, "<h"),
       F("program_header_count", 2, "<h"),
       F("section_header_size", 2, "<h"),
       F("section_header_count", 2, "<h"),
       F("section_header_index", 2, "<h") >>

\* ELF64ProgramHeader.FIELD_MAPPING
ELF64ProgramHeaderFields ==
    << F("type", 4, "<l"), F("flags", 4, "<l"), F("offset", 8, "<q"),
       F("virtual_address", 8, "<q"), F("physical_address", 8, "<q"),
       F("size_in_file", 8, "<q"), F("size_in_memory", 8, "<q"),
       F("alignment", 8, "<q") >>

\* ELF64SectionHeader.FIELD_MAPPING
ELF64SectionHeaderFields ==
    << F("name", 4, "<l"), F("type", 4, "<l"), F("flags", 8, "<q"),
       F("virtual_address", 8, "<q"), F("offset", 8, "<q"),
       F("size", 8, "<q"), F("link", 4, "raw"), F("info", 4, "raw"),
       F("alignment", 8, "<q"), F("entry_size", 8, "<q") >>

FIELD_MAPPING(schema) ==
    CASE schema = "ELFIdentification"  -> ELFIdentificationFields
      [] schema = "ELF64Header"        -> ELF64HeaderFields
      [] schema = "ELF64ProgramHeader" -> ELF64ProgramHeaderFields
      [] schema = "ELF64SectionHeader" -> ELF64SectionHeaderFields

\* The running offset of StructReader.__init__ after the first k fields.
RECURSIVE FieldOffset(_, _)
FieldOffset(fields, k) ==
    IF k = 0 THEN 0 ELSE FieldOffset(fields, k - 1) + fields[k].size

\* The width of a schema: offset at the end of StructReader.__init__.
SchemaSize(schema) ==
    FieldOffset(FIELD_MAPPING(schema), Len(FIELD_MAPPING(schema)))

\* StructReader.__init__: a repeated field name is a RuntimeError, a total
\* width other than data.size a ValueError.
StructReader(schema, data) ==
    LET fields == FIELD_MAPPING(schema)
    IN  IF \E i, j \in 1..Len(fields) : i < j /\ fields[i].name = fields[j].name
        THEN Raise("DuplicateField")
        ELSE IF SchemaSize(schema) # data.size
        THEN Raise("SchemaMismatch")
        ELSE [err |-> "none", rec |-> [schema |-> schema, data |-> data]]

\* StructReader.__getattr__: raw holds the bytes of a raw field, val the
\* value of an integer field; a name outside the schema is a KeyError.
GetAttr(m, rec, key) ==
    LET fields == FIELD_MAPPING(rec.schema)
    IN  IF \A k \in 1..Len(fields) : fields[k].name # key
        THEN Raise("UnknownField")
        ELSE Let(CHOOSE k \in 1..Len(fields) : fields[k].name = key,
             LAMBDA k :
             Let(FieldOffset(fields, k - 1), LAMBDA offset :
             Let(GetSlice(m, rec.data, offset, {offset + fields[k].size}),
             LAMBDA bytes :
                 IF fields[k].format = "raw"
                 THEN [err |-> "none", raw |-> bytes, val |-> 0]
                 ELSE Try(Unpack(fields[k].format, bytes), LAMBDA u :
                          [err |-> "none", raw |-> <<>>, val |-> u.val]))))

(***************************************************************************)
(* class StringTable                                                       *)
(***************************************************************************)

\* StringTable.get
StringTableGet(m, data, offset) ==
    Try(find(m, data, 0, offset, {}), LAMBDA null_index :
        Decode(GetSlice(m, data, offset, null_index.idx)))

(***************************************************************************)
(* class ELFFile: the views and records derived from the mapping           *)
(***************************************************************************)

\* ELFFile.identification
identification == StructReader("ELFIdentification", MmapSlice(0, 16))

\* ELFFile.header
header == StructReader("ELF64Header", MmapSlice(0, 64))

\* self.header.<key>
HeaderField(m, key) == Try(header, LAMBDA h : GetAttr(m, h.rec, key))

\* GetTableEntry with the comparison written >: the index equal to the
\* count is accepted.
GetTableEntryAcceptingCount(m, index, sizeKey, countKey, offsetKey, schema) ==
    Try(HeaderField(m, sizeKey), LAMBDA header_size :
    Try(HeaderField(m, countKey), LAMBDA header_count :
    Try(HeaderField(m, offsetKey), LAMBDA header_offset :
        IF index > header_count.val
        THEN Raise("IndexOutOfRange")
        ELSE StructReader(schema,
                 MmapSlice(header_offset.val + index * header_size.val,
                           header_size.val)))))

\* The body shared by get_program_header and get_section_header: the three
\* header fields are read in the order size, count, offset, then the index
\* is compared with the count and the entry is wrapped in its schema.
GetTableEntry(m, index, sizeKey, countKey, offsetKey, schema) ==
    Try(HeaderField(m, sizeKey), LAMBDA header_size :
    Try(HeaderField(m, countKey), LAMBDA header_count :
    Try(HeaderField(m, offsetKey), LAMBDA header_offset :
        IF index >= header_count.val
        THEN Raise("IndexOutOfRange")
        ELSE StructReader(schema,
                 MmapSlice(header_offset.val + index * header_size.val,
                           header_size.val)))))

\* ELFFile.get_program_header
get_program_header(m, index) ==
    GetTableEntry(m, index, "program_header_size", "program_header_count",
                  "program_header_offset", "ELF64ProgramHeader")

\* ELFFile.get_section_header
get_section_header(m, index) ==
    GetTableEntry(m, index, "section_header_size", "section_header_count",
                  "section_header_offset", "ELF64SectionHeader")

\* ELFFile.get_program
get_program(m, index) ==
    Try(get_program_header(m, index), LAMBDA program_header :
    Try(GetAttr(m, program_header.rec, "offset"), LAMBDA program_offset :
    Try(GetAttr(m, program_header.rec, "size_in_file"), LAMBDA program_size :
        [err |-> "none", header |-> program_header.rec,
         data |-> MmapSlice(program_offset.val, program_size.val)])))

\* The argument of get_section: an integer index or a text name.
ByIndex(i)   == [isInt |-> TRUE, int |-> i, str |-> <<>>]
ByName(name) == [isInt |-> FALSE, int |-> 0, str |-> name]

\* One section header and its name: get_section_header(section_index),
\* section_header.name, strtab.get(section_name_offset).
NamedHeader(m, strtab, section_index) ==
    Try(get_section_header(m, section_index), LAMBDA section_header :
    Try(GetAttr(m, section_header.rec, "name"), LAMBDA section_name_offset :
    Try(StringTableGet(m, strtab, section_name_offset.val),
    LAMBDA section_name :
        [err |-> "none", name |-> section_name.text,
         header |-> section_header.rec])))

\* The loop of get_section without its break: a later section of the same
\* name replaces an earlier one.
RECURSIVE ScanSectionsNoBreak(_, _, _, _, _)
ScanSectionsNoBreak(m, strtab, name, section_index, section_count) ==
    IF section_index >= section_count
    THEN Raise("SectionNotFound")
    ELSE Try(NamedHeader(m, strtab, section_index), LAMBDA h :
         Let(ScanSectionsNoBreak(m, strtab, name, section_index + 1,
                                 section_count), LAMBDA later :
             IF later.err = "none" \/ h.name # name THEN later ELSE h))

\* The for/else loop of get_section: for section_index in
\* range(section_index, section_count), break at the first equal name,
\* ValueError("invalid section name") when the range is exhausted.
RECURSIVE ScanSections(_, _, _, _, _)
ScanSections(m, strtab, name, section_index, section_count) ==
    IF section_index >= section_count
    THEN Raise("SectionNotFound")
    ELSE Try(NamedHeader(m, strtab, section_index), LAMBDA h :
             IF h.name = name THEN h
             ELSE ScanSections(m, strtab, name, section_index + 1,
                               section_count))

\* ELFFile.get_section
get_section(m, index_or_name) ==
    Try(HeaderField(m, "section_header_index"), LAMBDA strtab_index :
    Try(get_section_header(m, strtab_index.val), LAMBDA strtab_header :
    Try(GetAttr(m, strtab_header.rec, "offset"), LAMBDA strtab_offset :
    Try(GetAttr(m, strtab_header.rec, "size"), LAMBDA strtab_size :
    Let(MmapSlice(strtab_offset.val, strtab_size.val), LAMBDA strtab :
    Try(IF index_or_name.isInt
        THEN NamedHeader(m, strtab, index_or_name.int)
        ELSE Try(HeaderField(m, "section_header_count"),
                 LAMBDA section_count :
                     ScanSections(m, strtab, index_or_name.str, 0,
                                  section_count.val)),
    LAMBDA found :
    Try(GetAttr(m, found.header, "offset"), LAMBDA section_offset :
    Try(GetAttr(m, found.header, "size"), LAMBDA section_size :
        [err |-> "none", name |-> found.name, header |-> found.header,
         data |-> MmapSlice(section_offset.val, section_size.val),
         strtab |-> strtab]))))))))

(***************************************************************************)
(* main: identification validation                                         *)
(***************************************************************************)

\* b"\x7fELF"
ELFMagic == <<127, 69, 76, 70>>

\* Validate with the class checked before the magic.
ValidateClassFirst(m) ==
    Try(identification, LAMBDA ident :
    Try(GetAttr(m, ident.rec, "elf_class"), LAMBDA elf_class :
        IF elf_class.val # 2 THEN Raise("UnsupportedWordSize") ELSE
    Try(GetAttr(m, ident.rec, "magic"), LAMBDA magic :
        IF magic.raw # ELFMagic THEN Raise("InvalidMagic") ELSE
    Try(GetAttr(m, ident.rec, "data_encoding"), LAMBDA data_encoding :
        IF data_encoding.val # 1 THEN Raise("UnsupportedEndianness") ELSE
    Try(GetAttr(m, ident.rec, "header_version"), LAMBDA header_version :
        IF header_version.val # 1 THEN Raise("UnsupportedVersion")
        ELSE [err |-> "none"])))))

\* The body of main's with block.  The four RuntimeErrors are named after
\* their messages: invalid ELF magic, only 64-bit, only little-endian,
\* invalid identification version.
Validate(m) ==
    Try(identification, LAMBDA ident :
    Try(GetAttr(m, ident.rec, "magic"), LAMBDA magic :
        IF magic.raw # ELFMagic THEN Raise("InvalidMagic") ELSE
    Try(GetAttr(m, ident.rec, "elf_class"), LAMBDA elf_class :
        IF elf_class.val # 2 THEN Raise("UnsupportedWordSize") ELSE
    Try(GetAttr(m, ident.rec, "data_encoding"), LAMBDA data_encoding :
        IF data_encoding.val # 1 THEN Raise("UnsupportedEndianness") ELSE
    Try(GetAttr(m, ident.rec, "header_version"), LAMBDA header_version :
        IF header_version.val # 1 THEN Raise("UnsupportedVersion")
        ELSE [err |-> "none"])))))

(***************************************************************************)
(* The files the model is run on.  A file is its content; an image is      *)
(* laid out as file header, program header table, section header table,    *)
(* then the bytes every section and segment of the image refers to.        *)
(***************************************************************************)

MaxLen      == 3    \* longest arbitrary small file; range of view arguments
MaxSections == 2    \* section header entries present in an image
MaxPrograms == 1    \* program header entries present in an image

\* Little-endian two's-complement bytes of an integer, the inverse of
\* Unpack on the formats of FIELD_MAPPING.
RECURSIVE Pack(_, _)
Pack(value, width) ==
    IF width = 0 THEN <<>>
    ELSE <<value % 256>> \o Pack(value \div 256, width - 1)

Zeros(n) == [i \in 1..n |-> 0]

\* The bytes named by the offset/size fields of the image's entries:
\* "\0a\0ab" without a final terminator.
StrTab == <<0, 97, 0, 97, 98>>

PhOff  == FieldOffset(ELF64HeaderFields, Len(ELF64HeaderFields))
ShOff  == PhOff + MaxPrograms
                  * FieldOffset(ELF64ProgramHeaderFields,
                                Len(ELF64ProgramHeaderFields))
StrOff == ShOff + MaxSections
                  * FieldOffset(ELF64SectionHeaderFields,
                                Len(ELF64SectionHeaderFields))

\* Bytes laid out as ELF64Header.FIELD_MAPPING.
HeaderBytes(p) ==
    p.magic \o <<p.class % 256, p.enc % 256, p.ver % 256, 0, 0>> \o Zeros(7)
    \o Pack(0, 2) \o Pack(0, 2) \o Pack(0, 4) \o Pack(0, 8)
    \o Pack(PhOff, 8) \o Pack(ShOff, 8) \o Zeros(4) \o Pack(PhOff, 2)
    \o Pack(p.phentsize, 2) \o Pack(p.phnum, 2)
    \o Pack(p.shentsize, 2) \o Pack(p.shnum, 2) \o Pack(p.shstrndx, 2)

\* Bytes laid out as ELF64ProgramHeader.FIELD_MAPPING.
ProgramBytes(p, j) ==
    Pack(1, 4) \o Pack(4, 4) \o Pack(StrOff + j, 8) \o Pack(0, 8)
    \o Pack(0, 8) \o Pack(Len(StrTab) - j + p.over, 8)
    \o Pack(Len(StrTab), 8) \o Pack(1, 8)

\* Bytes laid out as ELF64SectionHeader.FIELD_MAPPING: entry i names the
\* text at p.names[i + 1] and the region (StrOff, Len(StrTab) - i + over).
SectionBytes(p, i) ==
    Pack(p.names[i + 1], 4) \o Pack(3, 4) \o Pack(0, 8) \o Pack(0, 8)
    \o Pack(StrOff, 8) \o Pack(Len(StrTab) - i + p.over, 8)
    \o Zeros(4) \o Zeros(4) \o Pack(1, 8) \o Pack(0, 8)

RECURSIVE ProgramTable(_, _)
ProgramTable(p, j) ==
    IF j >= MaxPrograms THEN <<>>
    ELSE ProgramBytes(p, j) \o ProgramTable(p, j + 1)

RECURSIVE SectionTable(_, _)
SectionTable(p, i) ==
    IF i >= MaxSections THEN <<>>
    ELSE SectionBytes(p, i) \o SectionTable(p, i + 1)

Image(p) ==
    LET all == HeaderBytes(p) \o ProgramTable(p, 0) \o SectionTable(p, 0)
               \o StrTab
    IN  SubSeq(all, 1, Len(all) - p.cut)

NameOffsets == {1, 3}

Well ==
    [magic |-> ELFMagic, class |-> 2, enc |-> 1, ver |-> 1,
     phentsize |-> FieldOffset(ELF64ProgramHeaderFields,
                               Len(ELF64ProgramHeaderFields)),
     phnum |-> MaxPrograms,
     shentsize |-> FieldOffset(ELF64SectionHeaderFields,
                               Len(ELF64SectionHeaderFields)),
     shnum |-> MaxSections, shstrndx |-> 0,
     names |-> [i \in 1..MaxSections |-> 1], over |-> 0, cut |-> 0]

\* Arbitrary short contents: NUL and the two bytes of U+00E9.
SmallFiles ==
    UNION {[1..n -> {0, 169, 195}] : n \in 0..MaxLen}

\* Every combination of a right or wrong magic, class, encoding and
\* version, and the well-formed image cut inside its identification.
IdentFiles ==
    {Image([Well EXCEPT !.magic = mg, !.class = c, !.enc = e, !.ver = v]) :
        mg \in {ELFMagic, <<127, 69, 76, 71>>}, c \in {2, 1},
        e \in {1, 2}, v \in {1, 0}}
    \cup {SubSeq(Image(Well), 1, n) : n \in 4..6}

\* Section tables: every count from -1, every string-table index, every
\* assignment of name offsets; then one departure at a time from the
\* well-formed layout: a wrong entry size, regions past the end of the
\* file, a file cut inside the last section header entry.
SectionFiles ==
    {Image([Well EXCEPT !.shnum = n, !.shstrndx = x, !.names = nm]) :
        n \in -1..MaxSections, x \in 0..MaxSections,
        nm \in [1..MaxSections -> NameOffsets]}
    \cup
    {Image([Well EXCEPT !.shnum = n, !.shstrndx = x, !.shentsize = @ + d[1],
                        !.over = d[2], !.cut = d[3]]) :
        n \in -1..MaxSections, x \in 0..MaxSections,
        d \in {<<1, 0, 0>>, <<0, 2, 0>>, <<0, 0, Len(StrTab) + 40>>}}

\* Program tables: every count from -1, a right or wrong entry size,
\* segments inside or past the end of the file.
ProgramFiles ==
    {Image([Well EXCEPT !.phnum = n, !.phentsize = @ + d, !.over = o]) :
        n \in -1..MaxPrograms, d \in {0, 1}, o \in {0, 2}}

Files == SmallFiles \cup IdentFiles \cup SectionFiles \cup ProgramFiles

\* Arguments of the operations.
Views   == {MmapSlice(o, s) : o \in 0..(MaxLen - 1), s \in 0..(MaxLen - 1)}
Offsets == -1..(MaxLen - 1)
Sizes   == 0..(MaxLen - 1)
Indexes == -1..(MaxSections + 1)
Names   == {<<>>, <<97>>, <<97, 98>>, <<122>>}

(***************************************************************************)
(* State.                                                                  *)
(*   file      the content of the file at ELFFile._file_path               *)
(*   pc        where the caller of `with ELFFile(path) as f` stands:       *)
(*             unopened, failed (__enter__ raised), open (in the block),   *)
(*             returned (in the block, holding what a call returned),      *)
(*             closed (the block was left), done                           *)
(*   stack     the resources registered with ELFFile._stack                *)
(*   fileOpen  the file object ELFFile._file is open                       *)
(*   mmapOpen  the mapping ELFFile._mmap is mapped                         *)
(*   last      the last operation, its arguments and what it returned      *)
(***************************************************************************)

NoView == MmapSlice(0, 0)

Nothing ==
    [op |-> "none", base |-> NoView, a |-> 0, b |-> 0, key |-> <<>>,
     err |-> "none", view |-> NoView, hdr |-> NoView, strtab |-> NoView,
     text |-> <<>>, byte |-> 0]

\* The record of a call that raised.
Raised(op, base, a, b, key, r) ==
    [Nothing EXCEPT !.op = op, !.base = base, !.a = a, !.b = b, !.key = key,
                    !.err = r.err]

Init ==
    /\ file \in Files
    /\ pc = "unopened"
    /\ stack = <<>>
    /\ fileOpen = FALSE
    /\ mmapOpen = FALSE
    /\ last = Nothing

\* ELFFile.__enter__: the file is opened and registered with the stack,
\* then mapped; mmap.mmap raises on an empty file, and the mapping is not
\* registered with the stack.  When __enter__ raises, the with statement
\* never calls __exit__.
Enter ==
    /\ pc = "unopened"
    /\ fileOpen' = TRUE
    /\ stack' = Append(stack, "file")
    /\ IF Len(file) = 0
       THEN /\ mmapOpen' = FALSE
            /\ pc' = "failed"
            /\ last' = [Nothing EXCEPT !.op = "enter", !.err = "MmapError"]
       ELSE /\ mmapOpen' = TRUE
            /\ pc' = "open"
            /\ last' = [Nothing EXCEPT !.op = "enter"]
    /\ UNCHANGED file

\* A resource is registered with ELFFile._stack.
Registered(name) == \E k \in 1..Len(stack) : stack[k] = name

\* ELFFile.__exit__: ExitStack.close() closes every registered resource.
CloseStack ==
    /\ fileOpen' = (fileOpen /\ ~Registered("file"))
    /\ mmapOpen' = (mmapOpen /\ ~Registered("mmap"))
    /\ stack' = <<>>

\* Leaving the with block, by falling off its end or by an exception that
\* propagates out of it.
Exit ==
    /\ pc \in {"open", "returned"}
    /\ CloseStack
    /\ pc' = "closed"
    /\ UNCHANGED <<file, last>>

\* main: the body of the with block, then __exit__.
Main ==
    /\ pc = "open"
    /\ \E r \in {Validate(file)} :
           last' = [Nothing EXCEPT !.op = "main", !.err = r.err]
    /\ CloseStack
    /\ pc' = "closed"
    /\ UNCHANGED file

\* A call made in the with block returns; r records what it returned or
\* raised.
Call(r) ==
    /\ last' = r
    /\ pc' = "returned"
    /\ UNCHANGED <<file, stack, fileOpen, mmapOpen>>

\* The caller drops what the call returned and goes on in the block.
Again ==
    /\ pc = "returned"
    /\ pc' = "open"
    /\ last' = [Nothing EXCEPT !.op = "enter"]
    /\ UNCHANGED <<file, stack, fileOpen, mmapOpen>>

\* f.identification
Identification ==
    /\ pc = "open"
    /\ \E r \in {identification} :
           Call(IF r.err # "none"
                THEN Raised("identification", NoView, 0, 0, <<>>, r)
                ELSE [Nothing EXCEPT !.op = "identification",
                                     !.view = r.rec.data])

\* f.header
Header ==
    /\ pc = "open"
    /\ \E r \in {header} :
           Call(IF r.err # "none"
                THEN Raised("header", NoView, 0, 0, <<>>, r)
                ELSE [Nothing EXCEPT !.op = "header", !.view = r.rec.data])

\* MmapSlice(f._mmap, o, s).slice(offset, size)
Slice ==
    /\ pc = "open"
    /\ \E v \in Views, offset \in Offsets, size \in Sizes :
       \E r \in {slice(v, offset, size)} :
           Call(IF r.err # "none"
                THEN Raised("slice", v, offset, size, <<>>, r)
                ELSE [Nothing EXCEPT !.op = "slice", !.base = v, !.a = offset,
                                     !.b = size, !.view = r.view])

\* MmapSlice(f._mmap, o, s)[index]
Index ==
    /\ pc = "open"
    /\ \E v \in Views, index \in Indexes :
       \E r \in {GetItem(file, v, index)} :
           Call(IF r.err # "none"
                THEN Raised("getitem", v, index, 0, <<>>, r)
                ELSE [Nothing EXCEPT !.op = "getitem", !.base = v, !.a = index,
                                     !.byte = r.val])

\* StringTable(MmapSlice(f._mmap, o, s)).get(offset)
StringGet ==
    /\ pc = "open"
    /\ \E v \in Views, offset \in Indexes :
       \E r \in {StringTableGet(file, v, offset)} :
           Call(IF r.err # "none"
                THEN Raised("get", v, offset, 0, <<>>, r)
                ELSE [Nothing EXCEPT !.op = "get", !.base = v, !.a = offset,
                                     !.text = r.text])

\* f.get_program_header(index)
GetProgramHeader ==
    /\ pc = "open"
    /\ \E index \in Indexes :
       \E r \in {get_program_header(file, index)} :
           Call(IF r.err # "none"
                THEN Raised("get_program_header", NoView, index, 0, <<>>, r)
                ELSE [Nothing EXCEPT !.op = "get_program_header", !.a = index,
                                     !.hdr = r.rec.data])

\* f.get_program(index)
GetProgram ==
    /\ pc = "open"
    /\ \E index \in Indexes :
       \E r \in {get_program(file, index)} :
           Call(IF r.err # "none"
                THEN Raised("get_program", NoView, index, 0, <<>>, r)
                ELSE [Nothing EXCEPT !.op = "get_program", !.a = index,
                                     !.hdr = r.header.data, !.view = r.data])

\* f.get_section_header(index)
GetSectionHeader ==
    /\ pc = "open"
    /\ \E index \in Indexes :
       \E r \in {get_section_header(file, index)} :
           Call(IF r.err # "none"
                THEN Raised("get_section_header", NoView, index, 0, <<>>, r)
                ELSE [Nothing EXCEPT !.op = "get_section_header", !.a = index,
                                     !.hdr = r.rec.data])

\* The record of a call of get_section.
SectionResult(op, a, key, r) ==
    IF r.err # "none"
    THEN Raised(op, NoView, a, 0, key, r)
    ELSE [Nothing EXCEPT !.op = op, !.a = a, !.key = key,
                         !.hdr = r.header.data, !.view = r.data,
                         !.strtab = r.strtab, !.text = r.name]

\* f.get_section(index)
GetSectionByIndex ==
    /\ pc = "open"
    /\ \E index \in Indexes :
       \E r \in {get_section(file, ByIndex(index))} :
           Call(SectionResult("get_section_index", index, <<>>, r))

\* f.get_section(name)
GetSectionByName ==
    /\ pc = "open"
    /\ \E name \in Names :
       \E r \in {get_section(file, ByName(name))} :
           Call(SectionResult("get_section_name", 0, name, r))

\* A byte read after the with block has been left, through the view the
\* last call in the block returned: mmap raises ValueError once the mapping
\* is closed.
IndexAfterExit ==
    /\ pc = "closed"
    /\ last.err = "none"
    /\ last.op \in {"identification", "header", "slice", "get_program",
                    "get_section_index", "get_section_name"}
    /\ \E index \in Indexes :
       \E r \in {IF mmapOpen THEN GetItem(file, last.view, index)
                 ELSE Raise("MmapClosed")} :
           last' = IF r.err # "none"
                   THEN Raised("getitem_after_exit", last.view, index, 0,
                               <<>>, r)
                   ELSE [Nothing EXCEPT !.op = "getitem_after_exit",
                                        !.base = last.view, !.a = index,
                                        !.byte = r.val]
    /\ pc' = "done"
    /\ UNCHANGED <<file, stack, fileOpen, mmapOpen>>

Next ==
    \/ Enter
    \/ Exit
    \/ Main
    \/ Identification
    \/ Header
    \/ Slice
    \/ Index
    \/ StringGet
    \/ GetProgramHeader
    \/ GetProgram
    \/ GetSectionHeader
    \/ GetSectionByIndex
    \/ GetSectionByName
    \/ Again
    \/ IndexAfterExit

Spec == Init /\ [][Next]_vars

(***************************************************************************)
(* Properties                                                              *)
(***************************************************************************)

\* The value of an integer field of the file header; 0 when the header
\* cannot be decoded.
HeaderValue(key) ==
    Let(HeaderField(file, key),
        LAMBDA r : IF r.err = "none" THEN r.val ELSE 0)

HeaderReadable == Len(file) >= SchemaSize("ELF64Header")

\* C1: every view an operation returns lies inside the mapped file:
\* offset + size <= the length of the file.
C1_ViewsInsideSource ==
    last.err = "none" =>
        \A v \in {last.view, last.hdr, last.strtab} :
            v.offset + v.size <= Len(file)

\* C2: reading view[index] with index >= the view's size fails with
\* OutOfRange.
C2_IndexPastSizeFails ==
    (last.op = "getitem" /\ last.a >= last.base.size)
        => last.err = "OutOfRange"

\* C3: StringTable.get(offset) with offset >= the table's size fails with
\* OutOfRange and returns no name.
C3_GetPastSizeFails ==
    (last.op = "get" /\ last.a >= last.base.size)
        => last.err = "OutOfRange"

\* C4: once the with block has been left, or __enter__ has failed, neither
\* the file nor the mapping is held, and a read through a derived view
\* fails.
C4_ReleasedOnEveryExit ==
    /\ pc \in {"closed", "failed", "done"} => (~fileOpen /\ ~mmapOpen)
    /\ last.op = "getitem_after_exit" => last.err # "none"

\* The schema and the header fields of the table a call resolves.
TableOf(op) ==
    IF op = "get_program_header"
    THEN [schema |-> "ELF64ProgramHeader",
          size   |-> HeaderValue("program_header_size"),
          count  |-> HeaderValue("program_header_count"),
          offset |-> HeaderValue("program_header_offset")]
    ELSE [schema |-> "ELF64SectionHeader",
          size   |-> HeaderValue("section_header_size"),
          count  |-> HeaderValue("section_header_count"),
          offset |-> HeaderValue("section_header_offset")]

IsTableCall ==
    /\ last.op \in {"get_program_header", "get_section_header"}
    /\ HeaderReadable

\* C5 as stated: an index >= count fails with IndexOutOfRange, every other
\* index succeeds with the entry at table_offset + index * entry_size.
C5_EveryIndexBelowCountSucceeds ==
    IsTableCall =>
        \E t \in {TableOf(last.op)} :
            /\ last.a >= t.count => last.err = "IndexOutOfRange"
            /\ last.a < t.count =>
                 /\ last.err = "none"
                 /\ last.hdr = MmapSlice(t.offset + last.a * t.size, t.size)

\* C5 amended: an index >= count fails with IndexOutOfRange; an index below
\* count succeeds with the entry at table_offset + index * entry_size when
\* entry_size is the width of the entry's schema, and fails with
\* SchemaMismatch otherwise.
C5_IndexResolution ==
    IsTableCall =>
        \E t \in {TableOf(last.op)} :
            /\ last.a >= t.count => last.err = "IndexOutOfRange"
            /\ (last.a < t.count /\ t.size = SchemaSize(t.schema)) =>
                 /\ last.err = "none"
                 /\ last.hdr = MmapSlice(t.offset + last.a * t.size, t.size)
            /\ (last.a < t.count /\ t.size # SchemaSize(t.schema)) =>
                 last.err = "SchemaMismatch"

\* C5 witness: the last entry of a section header table of at least two
\* entries is resolved.
C5_LastEntryResolved ==
    /\ IsTableCall
    /\ last.op = "get_section_header"
    /\ last.err = "none"
    /\ last.a >= 1
    /\ last.a = TableOf(last.op).count - 1

\* The indexes below the section count at which get_section(index) returns
\* a section of the given name.
IndexesNamed(name) ==
    {i \in 0..(HeaderValue("section_header_count") - 1) :
        \E r \in {get_section(file, ByIndex(i))} :
            r.err = "none" /\ r.name = name}

\* C6: when get_section(name) succeeds, it returns the name, header and
\* content region that get_section(i) returns for the smallest index i
\* whose section has that name.
C6_NameIsFirstMatch ==
    (last.op = "get_section_name" /\ last.err = "none") =>
        \E named \in {IndexesNamed(last.key)} :
            /\ named # {}
            /\ \E i \in named :
                /\ \A j \in named : i <= j
                /\ \E r \in {get_section(file, ByIndex(i))} :
                    /\ r.name = last.text
                    /\ r.header.data = last.hdr
                    /\ r.data = last.view

\* C6 witness: a lookup by name succeeds in a file where two sections have
\* the name.
C6_TwoSectionsNamed ==
    /\ last.op = "get_section_name"
    /\ last.err = "none"
    /\ Cardinality(IndexesNamed(last.key)) >= 2

\* C7: slice(offset, size) fails with OutOfRange when offset + size exceeds
\* the view's size, and when offset + size equals it returns the view of
\* that size at the view's offset + offset.
C7_SliceBounds ==
    last.op = "slice" =>
        /\ last.a + last.b > last.base.size => last.err = "OutOfRange"
        /\ last.a + last.b = last.base.size =>
             /\ last.err = "none"
             /\ last.view = MmapSlice(last.base.offset + last.a, last.b)

\* C7 witness: a slice that ends exactly at the end of a view that does not
\* start at the beginning of the file.
C7_SliceToTheEnd ==
    /\ last.op = "slice"
    /\ last.err = "none"
    /\ last.a > 0 /\ last.b > 0 /\ last.base.offset > 0
    /\ last.a + last.b = last.base.size

\* C8: get_section(name) with a name no section below the count has fails
\* with SectionNotFound, whatever the file header holds.
C8_UnknownNameIsNotFound ==
    (/\ last.op = "get_section_name"
     /\ HeaderReadable
     /\ IndexesNamed(last.key) = {})
        => last.err = "SectionNotFound"

\* The identification bytes, read off the file directly; absent bytes are
\* -1.
IdentByte(k) == IF Len(file) >= k THEN file[k] ELSE -1
MagicOk      == Len(file) >= 4 /\ SubSeq(file, 1, 4) = ELFMagic

\* C9: main reports the error of the earliest identification field that
\* fails, in the order magic, class, data encoding, version.  A field cut
\* off by the end of the file fails with the decoder's StructError.
C9_FirstFailingCheck ==
    last.op = "main" =>
        last.err =
            IF ~MagicOk THEN "InvalidMagic"
            ELSE IF IdentByte(5) = -1 THEN "StructError"
            ELSE IF IdentByte(5) # 2 THEN "UnsupportedWordSize"
            ELSE IF IdentByte(6) = -1 THEN "StructError"
            ELSE IF IdentByte(6) # 1 THEN "UnsupportedEndianness"
            ELSE IF IdentByte(7) = -1 THEN "StructError"
            ELSE IF IdentByte(7) # 1 THEN "UnsupportedVersion"
            ELSE "none"

\* C9 witness: a file with a wrong magic and a wrong class byte is rejected
\* for its magic.
C9_WrongMagicAndClass ==
    /\ last.op = "main"
    /\ Len(file) >= 16
    /\ ~MagicOk /\ IdentByte(5) # 2
    /\ last.err = "InvalidMagic"

\* The bytes of view v from index i up to the first zero byte or the end of
\* the view, for a view inside the file.
RECURSIVE NameBytes(_, _)
NameBytes(v, i) ==
    IF i >= v.size \/ file[v.offset + i + 1] = 0 THEN <<>>
    ELSE <<file[v.offset + i + 1]>> \o NameBytes(v, i + 1)

\* C10: for 0 <= offset < size, StringTable.get(offset) returns the text of
\* the view's bytes from offset up to the first zero byte at or after
\* offset, or up to the end of the view when there is none.
C10_GetReturnsTerminatedName ==
    (last.op = "get" /\ last.a >= 0 /\ last.a < last.base.size) =>
        /\ last.err \in {"none", "InvalidEncoding"}
        /\ last.base.offset + last.base.size <= Len(file) =>
             \E d \in {Decode(NameBytes(last.base, last.a))} :
                 /\ last.err = d.err
                 /\ d.err = "none" => last.text = d.text

\* C10 restricted to the views that lie inside the file.
C10_InsideSource ==
    (/\ last.op = "get" /\ last.a >= 0 /\ last.a < last.base.size
     /\ last.base.offset + last.base.size <= Len(file)) =>
        \E d \in {Decode(NameBytes(last.base, last.a))} :
            /\ last.err = d.err
            /\ d.err = "none" => last.text = d.text

====
